---- MODULE Spec2Model ----
(***************************************************************************)
(* A model of kanuni-cli's real-time session layer:                        *)
(*   - AuthManager / TokenStore  (src/src/auth/mod.rs, token_store.rs)     *)
(*   - ProgressWebSocket         (src/src/api/websocket.rs)                *)
(*   - ProgressTracker           (src/src/api/progress.rs)                 *)
(* Time is counted in minutes in the credential part and in milliseconds   *)
(* in the reconnection part.                                               *)
(***************************************************************************)
EXTENDS Integers, Sequences, FiniteSets, TLC

(***************************************************************************)
(* Bounds of the model                                                     *)
(***************************************************************************)
NumCallers == 2
MaxTime == 4
MaxIssued == 2
MaxConns == 2
MaxSubs == 2
MaxQueue == 1
MaxEvents == 3
MaxAttemptsCfg == 3
NumIds == 2
MaxTimeoutSecs == 3

(***************************************************************************)
(* Program constants                                                       *)
(***************************************************************************)
RefreshMarginMin == 5
DefaultMaxAttempts == 5
DefaultDelayMs == 1000
MaxElapsedMs == 60000

Callers == 1..NumCallers

\* lifetimes (minutes) the refresh endpoint may grant: one shorter than the
\* refresh margin, one longer
ExpiresInChoices == {3, 10}

VARIABLES
    \* ---- AuthManager / TokenStore
    disk,          \* contents of auth.json (NoCred when the file is absent)
    credentials,   \* AuthManager.credentials, the in-memory cache
    now,           \* Utc::now(), minutes
    pc,            \* where each get_access_token call stands
    local_rt,      \* the refresh_token a call captured before dropping the read lock
    response,      \* the RefreshResponse a call received
    result,        \* what each call returned
    issued,        \* last access token minted by the auth endpoint
    refresh_calls, \* number of refresh requests sent to the auth endpoint
    cred_lock,     \* the RwLock around AuthManager.credentials
    loaded,        \* what a call read back from the file before it asked for the write lock
    logged_out,    \* a logout has returned and no login has started since
    file_mode      \* permission bits of auth.json ("absent" when there is no file)

authVars == <<disk, credentials, now, pc, local_rt, response, result, issued, refresh_calls,
              cred_lock, loaded, logged_out, file_mode>>

VARIABLES
    \* ---- ProgressWebSocket and the tasks it spawns
    ws,            \* the ProgressWebSocket's fields and its connections
    event_queue,   \* the event_sender/event_receiver channel
    rc,            \* the running handle_reconnect call
    ws_lock,       \* who holds the websocket exclusively: "free", "user", "proc"
    \* ---- history
    hist

wsVars == <<ws, event_queue, rc, ws_lock, hist>>

VARIABLES
    \* ---- ProgressTracker
    events,                \* ProgressTracker.events: id -> the events stored for it
    active_subscriptions,  \* ProgressTracker.active_subscriptions: id -> channel type
    as_lock,               \* the RwLock around active_subscriptions
    events_lock,           \* the RwLock around events
    pe,                    \* the background task start_processing spawns
    received,              \* history: the events forwarded by the I/O loops, in order
    call                   \* the call a user task has made and is suspended in

trVars == <<events, active_subscriptions, as_lock, events_lock, pe, received, call>>

vars == <<authVars, wsVars, trVars>>

(***************************************************************************)
(* Credentials (token_store.rs: StoredCredentials / AuthType)              *)
(***************************************************************************)
NoCred == [kind |-> "None"]

OAuth(at, rt, exp) ==
    [kind |-> "OAuth", access_token |-> at, refresh_token |-> rt, expires_at |-> exp]

ApiKey(k) == [kind |-> "ApiKey", key |-> k]

NoResult == [tag |-> "none"]
Ok(tok) == [tag |-> "Ok", token |-> tok]
Err(why) == [tag |-> "Err", error |-> why]

NoResponse == [status |-> "none"]

\* TokenStore::load_credentials: the file's content, or None when it is absent
load_credentials(d) == d

\* an update that does not look at what the file holds
update_oauth_tokens_unguarded(d) == TRUE

\* TokenStore::update_oauth_tokens: Err when the file is absent or holds an
\* API key, otherwise the three OAuth fields are overwritten and saved.
update_oauth_tokens_ok(d) == load_credentials(d).kind = "OAuth"

update_oauth_tokens(d, at, rt, exp) ==
    IF update_oauth_tokens_ok(d) THEN OAuth(at, rt, exp) ELSE d

\* permission bits of auth.json
FileAbsent == "absent"
OwnerOnly == "0600"

\* the bits open(2) gives a file it creates, 0666 less the process's umask:
\* umask 022, umask 077
CreatedModes == {"0644", "0600"}

\* token_store.rs:60  fs::write: a file that exists keeps its bits, a file
\* that does not is created with the bits `created`
written_mode(mode, created) == IF mode = FileAbsent THEN created ELSE mode

\* token_store.rs:63-69  perms.set_mode(0o600); fs::set_permissions
set_permissions(mode) == OwnerOnly

\* a validity test that also accepts a token expiring exactly at the margin
StillValid_inclusive(cred, t) == cred.expires_at >= t + RefreshMarginMin

\* mod.rs:145  *expires_at > Utc::now() + Duration::minutes(5)
StillValid(cred, t) == cred.expires_at > t + RefreshMarginMin

(***************************************************************************)
(* tokio's RwLock, as AuthManager and ProgressTracker use it               *)
(***************************************************************************)
\* RwLock::new
NoLock == [readers |-> 0, writer |-> FALSE]

\* read() is granted unless a write guard is alive; write() only when no
\* guard at all is alive
read_lock(l) == [l EXCEPT !.readers = @ + 1]
can_write(l) == l.readers = 0 /\ ~l.writer
can_read(l) == ~l.writer

\* a read guard that is never dropped
read_unlock_forgotten(l) == l

\* drop of a read guard
read_unlock(l) == [l EXCEPT !.readers = @ - 1]

(***************************************************************************)
(* AuthManager::get_access_token                                           *)
(***************************************************************************)

\* a key handed out in another form than the stored one
api_key_token_derived(cred) == cred.key + 1

\* mod.rs:134-138  AuthType::ApiKey { key, .. } => Ok(key.clone())
api_key_token(cred) == cred.key

\* mod.rs:128-158: under the read lock decide what to do; when a refresh is
\* needed the guard is dropped (mod.rs:150) and the refresh request is sent;
\* a call that returns drops its guard on the way out.
GetAccessTokenStart(c) ==
    /\ pc[c] = "idle"
    /\ IF credentials.kind = "None"
         THEN /\ result' = [result EXCEPT ![c] = Err("NotAuthenticated")]
              /\ pc' = [pc EXCEPT ![c] = "done"]
              /\ UNCHANGED <<local_rt, refresh_calls>>
       ELSE IF credentials.kind = "ApiKey"
         THEN /\ result' = [result EXCEPT ![c] = Ok(api_key_token(credentials))]
              /\ pc' = [pc EXCEPT ![c] = "done"]
              /\ UNCHANGED <<local_rt, refresh_calls>>
       ELSE IF StillValid(credentials, now)
         THEN /\ result' = [result EXCEPT ![c] = Ok(credentials.access_token)]
              /\ pc' = [pc EXCEPT ![c] = "done"]
              /\ UNCHANGED <<local_rt, refresh_calls>>
         ELSE /\ refresh_calls < MaxIssued
              /\ local_rt' = [local_rt EXCEPT ![c] = credentials.refresh_token]
              /\ refresh_calls' = refresh_calls + 1
              /\ pc' = [pc EXCEPT ![c] = "refreshing"]
              /\ UNCHANGED result
    /\ can_read(cred_lock)
    /\ cred_lock' = read_unlock(read_lock(cred_lock))
    /\ UNCHANGED <<disk, credentials, now, response, issued, loaded, logged_out, file_mode>>
    /\ UNCHANGED <<wsVars, trVars>>

\* a rejected refresh that also drops the cached credential
RefreshRejected_Clearing(c) ==
    /\ pc[c] = "refreshing"
    /\ result' = [result EXCEPT ![c] = Err("AuthenticationError")]
    /\ pc' = [pc EXCEPT ![c] = "done"]
    /\ credentials' = NoCred
    /\ UNCHANGED <<disk, now, local_rt, response, issued, refresh_calls, cred_lock, loaded, logged_out, file_mode>>
    /\ UNCHANGED <<wsVars, trVars>>

\* client.rs:72-90 + mod.rs:158: the endpoint rejects the refresh token; the
\* `?` returns the error at once.
RefreshRejected(c) ==
    /\ pc[c] = "refreshing"
    /\ result' = [result EXCEPT ![c] = Err("AuthenticationError")]
    /\ pc' = [pc EXCEPT ![c] = "done"]
    /\ UNCHANGED <<disk, credentials, now, local_rt, response, issued, refresh_calls, cred_lock, loaded, logged_out, file_mode>>
    /\ UNCHANGED <<wsVars, trVars>>

\* the refresh_token member of the endpoint's JSON answer: absent (0), or a
\* token that replaces the one the request carried
BodyRefreshTokens(rt) == {0, rt + 1}

\* models.rs:26-30 + client.rs:74-78: RefreshResponse as serde reads it from
\* the body.  The struct has no refresh_token field, so that member of the
\* body is not read; the record keeps it as body_refresh_token for the
\* history only, and no action reads it.
RefreshResponse(at, ein, body_rt) ==
    [status |-> "OK", access_token |-> at, expires_in |-> ein,
     body_refresh_token |-> body_rt]

\* mod.rs:160-170: the endpoint answers 200 with a new access token; the new
\* expiry is computed, TokenStore::update_oauth_tokens rewrites the file, and
\* the right-hand side of the assignment at mod.rs:170 reads the file back
\* before the write lock is asked for (an assignment evaluates its value
\* before its place).
RefreshAccepted(c) ==
    /\ pc[c] = "refreshing"
    /\ \E ein \in ExpiresInChoices, body_rt \in BodyRefreshTokens(local_rt[c]) :
         LET at == issued + 1
             exp == now + ein
         IN /\ issued' = at
            /\ response' = [response EXCEPT ![c] = RefreshResponse(at, ein, body_rt)]
            /\ IF update_oauth_tokens_ok(disk)
                 THEN /\ disk' = update_oauth_tokens(disk, at, local_rt[c], exp)
                      /\ file_mode' = set_permissions(file_mode)
                      /\ loaded' = [loaded EXCEPT ![c] = load_credentials(disk')]
                      /\ pc' = [pc EXCEPT ![c] = "stored"]
                      /\ UNCHANGED result
                 ELSE /\ disk' = disk
                      /\ file_mode' = file_mode
                      /\ loaded' = loaded
                      /\ pc' = [pc EXCEPT ![c] = "done"]
                      /\ result' = [result EXCEPT ![c] = Err("StorageError")]
    /\ UNCHANGED <<credentials, now, local_rt, refresh_calls, cred_lock, logged_out>>
    /\ UNCHANGED <<wsVars, trVars>>

\* mod.rs:170-172: with the write lock granted the value read from the file
\* becomes the cache, and the response's access token is returned.
ReloadAndReturn(c) ==
    /\ pc[c] = "stored"
    /\ can_write(cred_lock)
    /\ credentials' = loaded[c]
    /\ loaded' = [loaded EXCEPT ![c] = NoCred]
    /\ result' = [result EXCEPT ![c] = Ok(response[c].access_token)]
    /\ pc' = [pc EXCEPT ![c] = "done"]
    /\ UNCHANGED <<disk, now, local_rt, response, issued, refresh_calls, cred_lock, logged_out, file_mode>>
    /\ UNCHANGED <<wsVars, trVars>>

\* the caller consumes the result; the same task may call again
CallReturns(c) ==
    /\ pc[c] = "done"
    /\ pc' = [pc EXCEPT ![c] = "idle"]
    /\ result' = [result EXCEPT ![c] = NoResult]
    /\ response' = [response EXCEPT ![c] = NoResponse]
    /\ local_rt' = [local_rt EXCEPT ![c] = 0]
    /\ UNCHANGED <<disk, credentials, now, issued, refresh_calls, cred_lock, loaded, logged_out, file_mode>>
    /\ UNCHANGED <<wsVars, trVars>>

\* device_flow.rs:121 / api_key.rs:203: a login that does not go through this
\* AuthManager (another AuthManager of the process, such as the one api.rs:25
\* builds, or another kanuni process) saves a credential to the store
LoginElsewhere ==
    /\ disk.kind = "None"
    /\ disk' \in {ApiKey(1), OAuth(1, 1, now + 3), OAuth(1, 1, now + 8)}
    /\ file_mode' = OwnerOnly
    /\ logged_out' = FALSE
    /\ UNCHANGED <<credentials, now, pc, local_rt, response, result, issued, refresh_calls, cred_lock, loaded>>
    /\ UNCHANGED <<wsVars, trVars>>

\* the wall clock advances
Tick ==
    /\ now < MaxTime
    /\ now' = now + 1
    /\ UNCHANGED <<disk, credentials, pc, local_rt, response, result, issued, refresh_calls, cred_lock, loaded, logged_out, file_mode>>
    /\ UNCHANGED <<wsVars, trVars>>

\* AuthManager::new (mod.rs:29-42): the cache is what the file holds
AuthInit ==
    /\ disk \in {NoCred, ApiKey(1), OAuth(1, 1, 3), OAuth(1, 1, 8)}
    /\ credentials = load_credentials(disk)
    /\ now = 0
    /\ pc = [c \in Callers |-> "idle"]
    /\ local_rt = [c \in Callers |-> 0]
    /\ response = [c \in Callers |-> NoResponse]
    /\ result = [c \in Callers |-> NoResult]
    /\ issued = 1
    /\ refresh_calls = 0
    /\ cred_lock = NoLock
    /\ loaded = [c \in Callers |-> NoCred]
    /\ logged_out = FALSE
    /\ file_mode = IF disk.kind = "None" THEN FileAbsent ELSE OwnerOnly

AuthNext ==
    \/ \E c \in Callers : GetAccessTokenStart(c)
    \/ \E c \in Callers : RefreshRejected(c)
    \/ \E c \in Callers : RefreshAccepted(c)
    \/ \E c \in Callers : ReloadAndReturn(c)
    \/ \E c \in Callers : CallReturns(c)
    \/ LoginElsewhere
    \/ Tick


(***************************************************************************)
(* ProgressWebSocket (websocket.rs)                                        *)
(***************************************************************************)
Ids == 1..NumIds

\* progress.rs:11-16
ChannelType == {"Upload", "Analysis", "Batch", "User"}

\* the channel types subscribe_upload / subscribe_analysis / subscribe_batch use
SubscribeTypes == {"Upload", "Analysis", "Batch"}

\* websocket.rs:35-45  ClientMessage
SubscribeMsg(ct, id) == [action |-> "subscribe", channel_type |-> ct, id |-> id]
UnsubscribeMsg(ct, id) == [action |-> "unsubscribe", channel_type |-> ct, id |-> id]
PingMsg == [action |-> "ping"]

\* one connection: the I/O loop task (it owns cmd_receiver), the ping task
\* and the commands waiting in the channel
NewConn(queue, alive) ==
    [io_alive |-> alive, ping_alive |-> TRUE, queue |-> queue]

\* websocket.rs:87-100  ProgressWebSocket::new
new(config, token) ==
    [config |-> config, token |-> token, ws_stream |-> 0, command_sender |-> 0,
     subscriptions |-> <<>>, is_connected |-> FALSE, conns |-> <<>>]

\* websocket.rs:290-303: the commands resubscribe sends, in registry order
resubscribe(w) ==
    [i \in 1..Len(w.subscriptions) |->
        SubscribeMsg(w.subscriptions[i][1], w.subscriptions[i][2])]

\* outcomes of connect(): the handshake is refused; it succeeds; or it
\* succeeds and the stream ends before resubscribe has sent everything, so
\* that a send on the new channel fails (only when there is something to send)
ConnectOutcomes(w) ==
    {"refused"}
      \cup (IF Len(w.conns) < MaxConns THEN {"ok"} ELSE {})
      \cup (IF Len(w.conns) < MaxConns /\ w.subscriptions # <<>>
              THEN {"early_close"} ELSE {})

\* outcomes of the connect() inside subscribe(): as above, and the stream
\* may also end between the return of connect() and subscribe's own send
\* (websocket.rs:245-257), which then fails like the send of resubscribe
SubscribeOutcomes(w) ==
    ConnectOutcomes(w)
      \cup (IF Len(w.conns) < MaxConns THEN {"early_close"} ELSE {})

\* a connect that raises the connected flag before the handshake has answered
connect_flag_first(w, outcome) ==
    LET n == Len(w.conns) + 1 IN
    CASE outcome = "refused" -> [w EXCEPT !.is_connected = TRUE]
      [] outcome = "ok" ->
           [w EXCEPT !.ws_stream = n, !.is_connected = TRUE, !.command_sender = n,
                     !.conns = Append(@, NewConn(resubscribe(w), TRUE))]
      [] outcome = "early_close" ->
           [w EXCEPT !.ws_stream = n, !.is_connected = FALSE, !.command_sender = n,
                     !.conns = Append(@, NewConn(<<>>, FALSE))]

\* websocket.rs:102-130  ProgressWebSocket::connect
connect(w, outcome) ==
    LET n == Len(w.conns) + 1 IN
    CASE outcome = "refused" -> w
      [] outcome = "ok" ->
           [w EXCEPT !.ws_stream = n, !.is_connected = TRUE, !.command_sender = n,
                     !.conns = Append(@, NewConn(resubscribe(w), TRUE))]
      [] outcome = "early_close" ->
           [w EXCEPT !.ws_stream = n, !.is_connected = FALSE, !.command_sender = n,
                     !.conns = Append(@, NewConn(<<>>, FALSE))]

connect_ok(outcome) == outcome = "ok"

\* UnboundedSender::send succeeds while the receiver exists, i.e. while the
\* I/O loop that owns it is running
can_send(w) == w.command_sender # 0 /\ w.conns[w.command_sender].io_alive

send(w, msg) == [w EXCEPT !.conns[w.command_sender].queue = Append(@, msg)]

\* websocket.rs:258
registry_add(subs, ct, id) == Append(subs, <<ct, id>>)

\* a retain that looks at the channel type alone
registry_remove_by_channel(subs, ct, id) == SelectSeq(subs, LAMBDA p : p[1] # ct)

\* websocket.rs:278  retain(|(ct, i)| ct != channel_type || i != id)
registry_remove(subs, ct, id) == SelectSeq(subs, LAMBDA p : p[1] # ct \/ p[2] # id)

\* websocket.rs:240-266  ProgressWebSocket::subscribe; the state it leaves
subscribe(w, ct, id, outcome) ==
    LET w1 == IF ~w.is_connected THEN connect(w, outcome) ELSE w IN
    IF ~w.is_connected /\ ~connect_ok(outcome) THEN w1
    ELSE IF can_send(w1)
      THEN [send(w1, SubscribeMsg(ct, id)) EXCEPT
               !.subscriptions = registry_add(@, ct, id)]
      ELSE w1

\* a track_* that does not look at what subscribe returned
subscribe_ok_unchecked(w, ct, id, outcome) == TRUE

\* websocket.rs:240-266: subscribe returns Ok
subscribe_ok(w, ct, id, outcome) ==
    LET w1 == IF ~w.is_connected THEN connect(w, outcome) ELSE w IN
    /\ (w.is_connected \/ connect_ok(outcome))
    /\ can_send(w1)

\* websocket.rs:268-284  ProgressWebSocket::unsubscribe
unsubscribe(w, ct, id) ==
    IF w.command_sender # 0
      THEN IF can_send(w)
             THEN [send(w, UnsubscribeMsg(ct, id)) EXCEPT
                      !.subscriptions = registry_remove(@, ct, id)]
             ELSE w
      ELSE w

unsubscribe_ok(w, ct, id) == w.command_sender # 0 => can_send(w)

\* websocket.rs:340: disconnect first clears the connected flag
disconnect_flag(w) == [w EXCEPT !.is_connected = FALSE]

\* websocket.rs:142-144: the I/O loop of a connection takes the socket's mutex
\* at the top of every iteration and keeps the guard while it waits in
\* select!, so the mutex is free only when that loop has exited (or when
\* there is no socket at all)
mutex_free(w) == w.ws_stream = 0 \/ ~w.conns[w.ws_stream].io_alive

\* websocket.rs:344-348: with the mutex held the socket is closed, then the
\* socket and the command sender are dropped.  Closing the socket makes the
\* I/O loop's next read end the loop; IoClosed may take that step at any time.
disconnect(w) ==
    [w EXCEPT !.is_connected = FALSE, !.ws_stream = 0, !.command_sender = 0]

\* no user call is in progress
NoCall == [op |-> "none", pc |-> "none"]

\* the call suspended in disconnect on ws_stream.lock()
Locking(w) ==
    [op |-> "disconnect", pc |-> IF mutex_free(w) THEN "locked" ELSE "locking",
     stream |-> w.ws_stream]

\* websocket.rs:141-142: at the end of an iteration the I/O loop of
\* connection n drops its guard; tokio's Mutex is fair, so a disconnect
\* waiting for that socket gets the mutex before the loop takes it again
after_iteration(c, n) ==
    IF c.op = "disconnect" /\ c.pc = "locking" /\ c.stream = n
      THEN [c EXCEPT !.pc = "locked"]
      ELSE c

Pairs == SubscribeTypes \X Ids

\* room left in the current channel (bounds the model only)
QueueRoom(w) ==
    w.command_sender # 0 => Len(w.conns[w.command_sender].queue) < MaxQueue

\* the history a successful subscribe / unsubscribe leaves
NoteSubscribed(h, ct, id) ==
    [h EXCEPT !.expected = @ \cup {<<ct, id>>}, !.finished = @ \ {id}]
NoteUnsubscribed(h, ct, id) == [h EXCEPT !.expected = @ \ {<<ct, id>>}]

\* the history the terminal event of a tracked entity leaves when it is
\* processed
NoteFinished(h, id) == [h EXCEPT !.finished = @ \cup {id}]

\* websocket.rs:105: the token connect() puts in the handshake URL
handshake_token(w) == w.token

\* the history a connect attempt leaves: the token of its handshake
NoteConnect(h, w) == [h EXCEPT !.handshake = handshake_token(w)]

----
\* user calls on the ProgressWebSocket

Connect ==
    /\ ws_lock = "free"
    /\ \E outcome \in ConnectOutcomes(ws) :
         /\ ws' = connect(ws, outcome)
         /\ hist' = NoteConnect(hist, ws)
    /\ UNCHANGED <<event_queue, rc, ws_lock>>
    /\ UNCHANGED <<authVars, trVars>>

Subscribe(ct, id) ==
    /\ ws_lock = "free"
    /\ Len(ws.subscriptions) < MaxSubs
    /\ QueueRoom(ws)
    /\ \E outcome \in SubscribeOutcomes(ws) :
         /\ ws' = subscribe(ws, ct, id, outcome)
         /\ LET h1 == IF ~ws.is_connected
                        THEN NoteConnect(hist, ws) ELSE hist
            IN hist' = IF subscribe_ok(ws, ct, id, outcome)
                         THEN NoteSubscribed(h1, ct, id) ELSE h1
    /\ UNCHANGED <<event_queue, rc, ws_lock>>
    /\ UNCHANGED <<authVars, trVars>>

Unsubscribe(ct, id) ==
    /\ ws_lock = "free"
    /\ QueueRoom(ws)
    /\ ws' = unsubscribe(ws, ct, id)
    /\ hist' = IF unsubscribe_ok(ws, ct, id)
                 THEN NoteUnsubscribed(hist, ct, id) ELSE hist
    /\ UNCHANGED <<event_queue, rc, ws_lock>>
    /\ UNCHANGED <<authVars, trVars>>

\* websocket.rs:339-343: disconnect up to ws_stream.lock().await
DisconnectStart ==
    /\ ws_lock = "free"
    /\ call = NoCall
    /\ ws' = disconnect_flag(ws)
    /\ call' = Locking(ws)
    /\ ws_lock' = "user"
    /\ UNCHANGED <<event_queue, rc, hist>>
    /\ UNCHANGED <<events, active_subscriptions, as_lock, events_lock, pe, received>>
    /\ UNCHANGED authVars

\* websocket.rs:343-350: the mutex is granted; close, drop, return
DisconnectFinish ==
    /\ call.op = "disconnect"
    /\ call.pc = "locked"
    /\ ws' = disconnect(ws)
    /\ call' = NoCall
    /\ ws_lock' = "free"
    /\ UNCHANGED <<event_queue, rc, hist>>
    /\ UNCHANGED <<events, active_subscriptions, as_lock, events_lock, pe, received>>
    /\ UNCHANGED authVars

----
\* the I/O loop task of connection n (websocket.rs:140-204)

Running(n) == n \in 1..Len(ws.conns) /\ ws.conns[n].io_alive

\* websocket.rs:187-199: take the next command and write it to the socket;
\* a failed write only clears the connected flag
IoSend(n) ==
    /\ Running(n)
    /\ ws.conns[n].queue # <<>>
    /\ \E written \in BOOLEAN :
         ws' = [ws EXCEPT !.conns[n].queue = Tail(@),
                          !.is_connected = IF written THEN @ ELSE FALSE]
    /\ call' = after_iteration(call, n)
    /\ UNCHANGED <<event_queue, rc, ws_lock, hist>>
    /\ UNCHANGED <<events, active_subscriptions, as_lock, events_lock, pe, received>>
    /\ UNCHANGED authVars

\* websocket.rs:167-181: Close, a read error or the end of the stream: clear
\* the connected flag and leave the loop, which drops cmd_receiver
IoClosed(n) ==
    /\ Running(n)
    /\ ws' = [ws EXCEPT !.is_connected = FALSE,
                        !.conns[n].io_alive = FALSE,
                        !.conns[n].queue = <<>>]
    /\ call' = after_iteration(call, n)
    /\ UNCHANGED <<event_queue, rc, ws_lock, hist>>
    /\ UNCHANGED <<events, active_subscriptions, as_lock, events_lock, pe, received>>
    /\ UNCHANGED authVars

\* websocket.rs:207-226: the ping task of connection n
PingTick(n) ==
    /\ n \in 1..Len(ws.conns)
    /\ ws.conns[n].ping_alive
    /\ IF ws.is_connected /\ ws.conns[n].io_alive
         THEN /\ Len(ws.conns[n].queue) < MaxQueue
              /\ ws' = [ws EXCEPT !.conns[n].queue = Append(@, PingMsg)]
         ELSE ws' = [ws EXCEPT !.conns[n].ping_alive = FALSE]
    /\ UNCHANGED <<event_queue, rc, ws_lock, hist>>
    /\ UNCHANGED <<authVars, trVars>>

----
\* websocket.rs:305-337  ProgressWebSocket::handle_reconnect

RcIdle == [pc |-> "idle", attempts |-> 0, elapsed |-> 0, result |-> "none",
           connects |-> 0, oks |-> 0, late |-> 0, delays |-> <<>>]

\* websocket.rs:308-314
HandleReconnectStart ==
    /\ ws_lock = "free"
    /\ rc.pc = "idle"
    /\ rc' = [RcIdle EXCEPT !.pc = "loop"]
    /\ ws_lock' = "user"
    /\ UNCHANGED <<ws, event_queue, hist>>
    /\ UNCHANGED <<authVars, trVars>>

\* websocket.rs:332  backoff.initial_interval * attempts
sleep_ms(w, attempts) == w.config.reconnect_delay_ms * attempts

\* giving up one attempt too late
attempts_exhausted_late(w, attempts) == attempts > w.config.reconnect_max_attempts

\* websocket.rs:317  attempts >= self.config.reconnect_max_attempts
attempts_exhausted(w, attempts) == attempts >= w.config.reconnect_max_attempts

\* websocket.rs:316-336: one turn of the loop
HandleReconnectAttempt ==
    /\ rc.pc = "loop"
    /\ IF attempts_exhausted(ws, rc.attempts)
         THEN /\ rc' = [rc EXCEPT !.pc = "idle", !.result = "Err"]
              /\ ws_lock' = IF ws_lock = "user" THEN "free" ELSE ws_lock
              /\ UNCHANGED <<ws, hist>>
         ELSE \E outcome \in ConnectOutcomes(ws) :
                LET attempts == rc.attempts + 1 IN
                /\ ws' = connect(ws, outcome)
                /\ hist' = NoteConnect(hist, ws)
                /\ IF connect_ok(outcome)
                     THEN /\ rc' = [rc EXCEPT !.pc = "idle", !.result = "Ok",
                                              !.attempts = attempts,
                                              !.connects = @ + 1, !.oks = @ + 1,
                                              !.late = IF rc.elapsed > MaxElapsedMs
                                                         THEN @ + 1 ELSE @]
                          /\ ws_lock' = IF ws_lock = "user" THEN "free" ELSE ws_lock
                     ELSE /\ rc' = [rc EXCEPT
                                      !.attempts = attempts,
                                      !.connects = @ + 1,
                                      !.late = IF rc.elapsed > MaxElapsedMs
                                                 THEN @ + 1 ELSE @,
                                      !.elapsed =
                                         IF attempts < ws.config.reconnect_max_attempts
                                           THEN @ + sleep_ms(ws, attempts) ELSE @,
                                      !.delays =
                                         IF attempts < ws.config.reconnect_max_attempts
                                           THEN Append(@, sleep_ms(ws, attempts)) ELSE @]
                          /\ UNCHANGED ws_lock
    /\ UNCHANGED event_queue
    /\ UNCHANGED <<authVars, trVars>>

----
HistInit ==
    [expected |-> {}, handshake |-> 0, inbound |-> <<>>, finished |-> {}]

DefaultConfig ==
    [reconnect_max_attempts |-> DefaultMaxAttempts, reconnect_delay_ms |-> DefaultDelayMs]

\* batch.rs:198-204: the token the session is built with is the one
\* get_access_token returns at that time
SessionToken(cred) ==
    IF cred.kind = "OAuth" THEN cred.access_token
    ELSE IF cred.kind = "ApiKey" THEN cred.key
    ELSE 0

WsInit(configs) ==
    /\ \E cfg \in configs : ws = new(cfg, SessionToken(credentials))
    /\ event_queue = <<>>
    /\ rc = RcIdle
    /\ ws_lock = "free"
    /\ hist = HistInit

\* progress.rs:149-157  ProgressTracker::new
TrackerInit ==
    /\ events = [i \in Ids |-> <<>>]
    /\ active_subscriptions = [i \in Ids |-> "none"]
    /\ as_lock = NoLock
    /\ events_lock = NoLock
    /\ pe = [pc |-> "off"]
    /\ received = <<>>
    /\ call = NoCall

\* the credential part at rest
AuthIdle ==
    /\ disk = OAuth(1, 1, 8)
    /\ credentials = load_credentials(disk)
    /\ now = 0
    /\ pc = [c \in Callers |-> "idle"]
    /\ local_rt = [c \in Callers |-> 0]
    /\ response = [c \in Callers |-> NoResponse]
    /\ result = [c \in Callers |-> NoResult]
    /\ issued = 1
    /\ refresh_calls = 0
    /\ cred_lock = NoLock
    /\ loaded = [c \in Callers |-> NoCred]
    /\ logged_out = FALSE
    /\ file_mode = IF disk.kind = "None" THEN FileAbsent ELSE OwnerOnly

\* the pairs the direct calls are made with
WsPairs == {p \in Pairs : p[2] = 1}

WsNext ==
    \/ Connect
    \/ \E p \in WsPairs : Subscribe(p[1], p[2])
    \/ \E p \in WsPairs : Unsubscribe(p[1], p[2])
    \/ DisconnectStart
    \/ DisconnectFinish
    \/ \E n \in 1..MaxConns : IoSend(n)
    \/ \E n \in 1..MaxConns : IoClosed(n)
    \/ \E n \in 1..MaxConns : PingTick(n)
    \/ HandleReconnectStart
    \/ HandleReconnectAttempt

\* a session configured for two reconnection attempts
WsConfig == [reconnect_max_attempts |-> 2, reconnect_delay_ms |-> DefaultDelayMs]

WsSpecInit == AuthIdle /\ WsInit({WsConfig}) /\ TrackerInit

WsSpec == WsSpecInit /\ [][WsNext]_vars


(***************************************************************************)
(* ProgressTracker (progress.rs)                                           *)
(***************************************************************************)

\* progress.rs:20-26  ProgressEvent, with the ids each payload carries
UploadEv(d) == [type |-> "upload", document_id |-> d]
AnalysisEv(a, d) == [type |-> "analysis", analysis_id |-> a, document_id |-> d]
BatchEv(b) == [type |-> "batch", batch_id |-> b]
ErrorEv(i) == [type |-> "error", id |-> i]
CompleteEv(i) == [type |-> "complete", id |-> i]

ProgressEvent ==
    {UploadEv(d) : d \in Ids} \cup {AnalysisEv(a, d) : a \in Ids, d \in Ids}
      \cup {BatchEv(b) : b \in Ids} \cup {ErrorEv(i) : i \in Ids}
      \cup {CompleteEv(i) : i \in Ids}

\* an analysis event filed under the document it analyses
event_id_by_document(e) ==
    CASE e.type = "upload" -> e.document_id
      [] e.type = "analysis" -> e.document_id
      [] e.type = "batch" -> e.batch_id
      [] e.type = "error" -> e.id
      [] e.type = "complete" -> e.id

\* progress.rs:214-220
event_id(e) ==
    CASE e.type = "upload" -> e.document_id
      [] e.type = "analysis" -> e.analysis_id
      [] e.type = "batch" -> e.batch_id
      [] e.type = "error" -> e.id
      [] e.type = "complete" -> e.id

\* progress.rs:227  matches!(&event, Complete(_) | Error(_))
is_terminal(e) == e.type \in {"complete", "error"}

\* a log that keeps the latest event of an id only
store_event_latest(evs, id, e) == [evs EXCEPT ![id] = <<e>>]

\* progress.rs:224  events.entry(id).or_insert_with(Vec::new).push(event)
store_event(evs, id, e) == [evs EXCEPT ![id] = Append(@, e)]

\* progress.rs:200-203  get_events
get_events(evs, id) == evs[id]

\* progress.rs:205-208  get_latest_event
None == [some |-> FALSE]
Some(v) == [some |-> TRUE, value |-> v]

get_latest_event(evs, id) ==
    IF evs[id] = <<>> THEN None ELSE Some(evs[id][Len(evs[id])])

\* progress.rs:228: the guard active_subscriptions.read() returns is a
\* temporary of the `if let` scrutinee and lives to the end of the block
cleanup_guard(l) == read_lock(l)

\* progress.rs:166-173: what track_* does once it holds the websocket
TrackBody(ct, id) ==
    /\ Len(ws.subscriptions) < MaxSubs
    /\ \E outcome \in SubscribeOutcomes(ws) :
         /\ ws' = subscribe(ws, ct, id, outcome)
         /\ LET h1 == IF ~ws.is_connected THEN NoteConnect(hist, ws) ELSE hist
            IN IF subscribe_ok(ws, ct, id, outcome)
                 THEN /\ hist' = NoteSubscribed(h1, ct, id)
                      /\ active_subscriptions' =
                            [active_subscriptions EXCEPT ![id] = ct]
                 ELSE /\ hist' = h1
                      /\ UNCHANGED active_subscriptions
    /\ UNCHANGED <<event_queue, rc, ws_lock>>
    /\ UNCHANGED <<events, as_lock, events_lock, pe, received>>
    /\ UNCHANGED authVars

\* progress.rs:164-198  track_upload / track_analysis / track_batch, called
\* while nobody holds the websocket
Track(ct, id) ==
    /\ ws_lock = "free"
    /\ call = NoCall
    /\ TrackBody(ct, id)
    /\ UNCHANGED call

\* progress.rs:165: called while the websocket is held, track_* suspends on
\* websocket.write()
TrackSuspends(ct, id) ==
    /\ ws_lock # "free"
    /\ call = NoCall
    /\ call' = [op |-> "track", pc |-> "waiting", channel_type |-> ct, id |-> id]
    /\ UNCHANGED <<events, active_subscriptions, as_lock, events_lock, pe, received>>
    /\ UNCHANGED <<authVars, wsVars>>

\* progress.rs:165-173: the write lock is granted and track_* runs
TrackGranted ==
    /\ call.op = "track"
    /\ ws_lock = "free"
    /\ TrackBody(call.channel_type, call.id)
    /\ call' = NoCall

\* progress.rs:258: called while the websocket is held, disconnect suspends
\* on websocket.write()
DisconnectSuspends ==
    /\ ws_lock # "free"
    /\ call = NoCall
    /\ call' = [op |-> "tracker_disconnect", pc |-> "waiting"]
    /\ UNCHANGED <<events, active_subscriptions, as_lock, events_lock, pe, received>>
    /\ UNCHANGED <<authVars, wsVars>>

\* progress.rs:258-259: the write lock is granted and the websocket's
\* disconnect starts
DisconnectGranted ==
    /\ call.op = "tracker_disconnect"
    /\ ws_lock = "free"
    /\ ws' = disconnect_flag(ws)
    /\ call' = Locking(ws)
    /\ ws_lock' = "user"
    /\ UNCHANGED <<event_queue, rc, hist>>
    /\ UNCHANGED <<events, active_subscriptions, as_lock, events_lock, pe, received>>
    /\ UNCHANGED authVars

\* a reader's call: it returns v, or stays suspended on events.read()
Reading(op, id, v) ==
    IF can_read(events_lock)
      THEN [op |-> op, pc |-> "done", id |-> id, value |-> v]
      ELSE [op |-> op, pc |-> "waiting", id |-> id]

\* progress.rs:200-203  get_events, from the call to its return
GetEvents(id) ==
    /\ call = NoCall \/ (call.op = "get_events" /\ call.pc = "waiting" /\ call.id = id)
    /\ call' = Reading("get_events", id, get_events(events, id))
    /\ UNCHANGED <<events, active_subscriptions, as_lock, events_lock, pe, received>>
    /\ UNCHANGED <<authVars, wsVars>>

\* progress.rs:205-208  get_latest_event, from the call to its return
GetLatestEvent(id) ==
    /\ call = NoCall
         \/ (call.op = "get_latest_event" /\ call.pc = "waiting" /\ call.id = id)
    /\ call' = Reading("get_latest_event", id, get_latest_event(events, id))
    /\ UNCHANGED <<events, active_subscriptions, as_lock, events_lock, pe, received>>
    /\ UNCHANGED <<authVars, wsVars>>

\* mod.rs:177-179 is_authenticated, mod.rs:182-184 status: what the reader
\* sees of the cached credential
credential_view(op, cred) ==
    IF op = "is_authenticated" THEN cred.kind # "None" ELSE cred.kind

CredentialReaders == {"is_authenticated", "status"}

\* mod.rs:177-185: is_authenticated / status, from the call to its return;
\* the reader stays suspended on credentials.read() while a write guard is
\* alive
ReadCredential(op) ==
    /\ call = NoCall \/ (call.op = op /\ call.pc = "waiting")
    /\ call' = IF can_read(cred_lock)
                 THEN [op |-> op, pc |-> "done",
                       value |-> credential_view(op, credentials)]
                 ELSE [op |-> op, pc |-> "waiting"]
    /\ UNCHANGED <<events, active_subscriptions, as_lock, events_lock, pe, received>>
    /\ UNCHANGED <<authVars, wsVars>>

\* the reader has its answer
ReaderReturns ==
    /\ call.pc = "done"
    /\ call' = NoCall
    /\ UNCHANGED <<events, active_subscriptions, as_lock, events_lock, pe, received>>
    /\ UNCHANGED <<authVars, wsVars>>

\* progress.rs:257-260  ProgressTracker::disconnect: with the websocket's
\* write lock granted it runs the websocket's disconnect, which
\* DisconnectFinish completes
TrackerDisconnect ==
    /\ ws_lock = "free"
    /\ call = NoCall
    /\ ws' = disconnect_flag(ws)
    /\ call' = Locking(ws)
    /\ ws_lock' = "user"
    /\ UNCHANGED <<event_queue, rc, hist>>
    /\ UNCHANGED <<events, active_subscriptions, as_lock, events_lock, pe, received>>
    /\ UNCHANGED authVars

\* progress.rs:238-240  start_processing spawns the background task
StartProcessing ==
    /\ pe.pc = "off"
    /\ pe' = [pc |-> "idle"]
    /\ UNCHANGED <<events, active_subscriptions, as_lock, events_lock, received, call>>
    /\ UNCHANGED <<authVars, wsVars>>

\* progress.rs:211: process_events takes the websocket's write lock
ProcessEventsEnter ==
    /\ pe.pc = "idle"
    /\ ws_lock = "free"
    /\ ws_lock' = "proc"
    /\ pe' = [pc |-> "recv"]
    /\ UNCHANGED <<ws, event_queue, rc, hist>>
    /\ UNCHANGED <<events, active_subscriptions, as_lock, events_lock, received, call>>
    /\ UNCHANGED authVars

\* progress.rs:213-233: one turn of the while loop, up to the point at which
\* the task next suspends: on next_event() again ("recv"), out of
\* process_events with the error of unsubscribe ("failed"), or on
\* active_subscriptions.write() ("blocked")
ProcessEvent ==
    /\ pe.pc = "recv"
    /\ event_queue # <<>>
    /\ LET event == Head(event_queue)
           id == event_id(event)
           tracked == active_subscriptions[id] # "none"
           guard == cleanup_guard(as_lock)
       IN
       /\ event_queue' = Tail(event_queue)
       /\ events' = store_event(events, id, event)
       /\ IF is_terminal(event) /\ tracked
            THEN IF unsubscribe_ok(ws, active_subscriptions[id], id)
                   THEN /\ ws' = unsubscribe(ws, active_subscriptions[id], id)
                        /\ hist' = NoteUnsubscribed(NoteFinished(hist, id),
                                                    active_subscriptions[id], id)
                        /\ IF can_write(guard)
                             THEN /\ active_subscriptions' =
                                        [active_subscriptions EXCEPT ![id] = "none"]
                                  /\ pe' = [pc |-> "recv"]
                                  /\ UNCHANGED <<as_lock, events_lock, ws_lock>>
                             ELSE /\ pe' = [pc |-> "blocked", id |-> id]
                                  /\ as_lock' = guard
                                  /\ events_lock' = [events_lock EXCEPT !.writer = TRUE]
                                  /\ UNCHANGED <<active_subscriptions, ws_lock>>
                   ELSE /\ pe' = [pc |-> "failed"]
                        /\ ws_lock' = "free"
                        /\ hist' = NoteFinished(hist, id)
                        /\ UNCHANGED <<ws, active_subscriptions, as_lock, events_lock>>
            ELSE /\ pe' = [pc |-> "recv"]
                 /\ UNCHANGED <<ws, hist, active_subscriptions, as_lock, events_lock,
                                ws_lock>>
    /\ UNCHANGED <<rc, received, call>>
    /\ UNCHANGED authVars

\* progress.rs:241-251: process_events returned an error; take the write lock
\* and reconnect when the connection is down
ProcessingRecover ==
    /\ pe.pc = "failed"
    /\ ws_lock = "free"
    /\ rc.pc = "idle"
    /\ IF ~ws.is_connected
         THEN /\ ws_lock' = "proc"
              /\ rc' = [RcIdle EXCEPT !.pc = "loop"]
              /\ pe' = [pc |-> "reconnecting"]
         ELSE /\ pe' = [pc |-> "idle"]
              /\ UNCHANGED <<ws_lock, rc>>
    /\ UNCHANGED <<ws, event_queue, hist>>
    /\ UNCHANGED <<events, active_subscriptions, as_lock, events_lock, received, call>>
    /\ UNCHANGED authVars

\* progress.rs:247-252: handle_reconnect returned (after the 5 s sleep when it
\* failed); the guard is dropped and the loop starts over
ProcessingResume ==
    /\ pe.pc = "reconnecting"
    /\ rc.pc = "idle"
    /\ ws_lock' = "free"
    /\ pe' = [pc |-> "idle"]
    /\ UNCHANGED <<ws, event_queue, rc, hist>>
    /\ UNCHANGED <<events, active_subscriptions, as_lock, events_lock, received, call>>
    /\ UNCHANGED authVars

\* websocket.rs:146-157: a progress message arrives on connection n and its
\* event is forwarded to the event channel
IoRecvProgress(n, e) ==
    /\ Running(n)
    /\ Len(received) < MaxEvents
    /\ event_queue' = Append(event_queue, e)
    /\ received' = Append(received, e)
    /\ call' = after_iteration(call, n)
    /\ UNCHANGED <<ws, rc, ws_lock, hist>>
    /\ UNCHANGED <<events, active_subscriptions, as_lock, events_lock, pe>>
    /\ UNCHANGED authVars

----
\* inbound frames and their decoding (websocket.rs:146-183)

\* websocket.rs:54-63  ServerMessageType, in serde's snake_case names
ServerMessageType ==
    {"connected", "subscribed", "unsubscribed", "progress", "error", "pong"}

\* websocket.rs:65-71: a payload with the fields of WebSocketMessage around
\* the event, the event alone, and a payload whose event does not decode
Wrapped(e) == [id |-> TRUE, event |-> e]
Bare(e) == [id |-> FALSE, event |-> e]
Junk == Wrapped([type |-> "junk"])
NoData == Bare([type |-> "none"])

\* a text frame whose JSON has the fields of ServerMessage, a text frame
\* that is not such JSON, and a frame that is not text
TextFrame(t, d) ==
    [frame |-> "text", envelope |-> TRUE, message_type |-> t, data |-> d]
Undecodable ==
    [frame |-> "text", envelope |-> FALSE, message_type |-> "", data |-> NoData]
BinaryFrame ==
    [frame |-> "binary", envelope |-> FALSE, message_type |-> "", data |-> NoData]

\* websocket.rs:150  serde_json::from_str::<ServerMessage>(&text)
from_str(m) ==
    IF m.envelope /\ m.message_type \in ServerMessageType
      THEN Some([message_type |-> m.message_type, data |-> m.data])
      ELSE None

\* websocket.rs:154  serde_json::from_value::<WebSocketMessage>(data)
from_value(data) ==
    IF data.id /\ data.event \in ProgressEvent THEN Some(data) ELSE None

\* a handler that forwards the event of any decoded message
forwarded_any_type(m) ==
    IF m.frame = "text" /\ from_str(m).some
         /\ from_value(from_str(m).value.data).some
      THEN <<from_value(from_str(m).value.data).value.event>>
      ELSE <<>>

\* websocket.rs:148-166, 182: what the handler sends to the event channel
\* for one frame
forwarded(m) ==
    IF m.frame # "text" THEN <<>>
    ELSE LET server_msg == from_str(m) IN
         IF ~server_msg.some THEN <<>>
         ELSE IF server_msg.value.message_type # "progress" THEN <<>>
         ELSE LET ws_msg == from_value(server_msg.value.data) IN
              IF ws_msg.some THEN <<ws_msg.value.event>> ELSE <<>>

\* a handler that leaves its loop on a frame it cannot decode
after_frame_strict(w, n, m) ==
    IF m.frame = "text" /\ ~from_str(m).some
      THEN [w EXCEPT !.is_connected = FALSE, !.conns[n].io_alive = FALSE,
                     !.conns[n].queue = <<>>]
      ELSE w

\* websocket.rs:148-166, 182: no arm for a text or other data frame touches
\* the connected flag or leaves the loop
after_frame(w, n, m) == w

\* websocket.rs:146-166, 182: a frame arrives on connection n
IoRecvMessage(n, m) ==
    /\ Running(n)
    /\ Len(hist.inbound) < MaxEvents
    /\ ws' = after_frame(ws, n, m)
    /\ event_queue' = event_queue \o forwarded(m)
    /\ received' = received \o forwarded(m)
    /\ hist' = [hist EXCEPT !.inbound = Append(@, m)]
    /\ call' = after_iteration(call, n)
    /\ UNCHANGED <<rc, ws_lock>>
    /\ UNCHANGED <<events, active_subscriptions, as_lock, events_lock, pe>>
    /\ UNCHANGED authVars

\* the frames the server sends in the scenarios
Frames ==
    {TextFrame("progress", d) :
        d \in {Wrapped(UploadEv(1)), Wrapped(CompleteEv(1)), Bare(UploadEv(1)), Junk}}
      \cup {TextFrame(t, Wrapped(UploadEv(1))) :
                t \in (ServerMessageType \ {"progress"}) \cup {"Progress"}}
      \cup {TextFrame("error", Junk), Undecodable, BinaryFrame}

\* the entities the tracker is asked to follow and the events the server sends
TrackPairs == {<<"Upload", 1>>, <<"Analysis", 2>>}

WireEvents == {UploadEv(1), AnalysisEv(2, 1), CompleteEv(1), ErrorEv(2)}

\* the events and ids of the scenarios with a user task
LoopEvents == {UploadEv(1), CompleteEv(1)}

LoopIds == {1}

TrackerNext ==
    \/ Connect
    \/ \E p \in TrackPairs : Track(p[1], p[2])
    \/ TrackerDisconnect
    \/ DisconnectFinish
    \/ StartProcessing
    \/ ProcessEventsEnter
    \/ ProcessEvent
    \/ ProcessingRecover
    \/ ProcessingResume
    \/ HandleReconnectAttempt
    \/ \E n \in 1..MaxConns : IoSend(n)
    \/ \E n \in 1..MaxConns : IoClosed(n)
    \/ \E n \in 1..MaxConns, e \in WireEvents : IoRecvProgress(n, e)

\* reconnection under every configuration of the bounds
ReconnectConfigs ==
    [reconnect_max_attempts : 0..MaxAttemptsCfg,
     reconnect_delay_ms : {DefaultDelayMs, 30 * DefaultDelayMs}]

ReconnectNext ==
    \/ Connect
    \/ \E p \in WsPairs : Subscribe(p[1], p[2])
    \/ \E n \in 1..MaxConns : IoSend(n)
    \/ \E n \in 1..MaxConns : IoClosed(n)
    \/ HandleReconnectStart
    \/ HandleReconnectAttempt

ReconnectSpecInit == AuthIdle /\ WsInit(ReconnectConfigs) /\ TrackerInit

ReconnectSpec == ReconnectSpecInit /\ [][ReconnectNext]_vars

\* reconnection under the default configuration (5 attempts, 1000 ms)
BackoffSpecInit == AuthIdle /\ WsInit({DefaultConfig}) /\ TrackerInit

BackoffSpec == BackoffSpecInit /\ [][ReconnectNext]_vars

\* subscribing and tracking over connections that come and go
SubNext ==
    \/ \E p \in TrackPairs : Track(p[1], p[2])
    \/ \E p \in WsPairs : Subscribe(p[1], p[2])
    \/ \E n \in 1..MaxConns : IoSend(n)
    \/ \E n \in 1..MaxConns : IoClosed(n)

SubSpecInit == AuthIdle /\ WsInit({WsConfig}) /\ TrackerInit

SubSpec == SubSpecInit /\ [][SubNext]_vars

\* a session next to the credential manager it took its token from
SessionNext ==
    \/ \E c \in Callers : GetAccessTokenStart(c)
    \/ \E c \in Callers : RefreshRejected(c)
    \/ \E c \in Callers : RefreshAccepted(c)
    \/ \E c \in Callers : ReloadAndReturn(c)
    \/ \E c \in Callers : CallReturns(c)
    \/ Tick
    \/ Connect
    \/ \E n \in 1..MaxConns : IoClosed(n)
    \/ HandleReconnectStart
    \/ HandleReconnectAttempt

SessionSpecInit == AuthIdle /\ WsInit({WsConfig}) /\ TrackerInit

SessionSpec == SessionSpecInit /\ [][SessionNext]_vars

\* the event path alone: tracking, the I/O loops forwarding events and the
\* background task storing them
EventNext ==
    \/ Connect
    \/ \E p \in TrackPairs : Track(p[1], p[2])
    \/ StartProcessing
    \/ ProcessEventsEnter
    \/ ProcessEvent
    \/ \E n \in 1..MaxConns : IoClosed(n)
    \/ \E n \in 1..MaxConns, e \in WireEvents : IoRecvProgress(n, e)

EventSpecInit == AuthIdle /\ WsInit({WsConfig}) /\ TrackerInit

EventSpec == EventSpecInit /\ [][EventNext]_vars

\* the event log of one upload under everything the tracker does: tracking,
\* the background task with its cleanup and its reconnects, and disconnect
LogPairs == {<<"Upload", 1>>}

LogNext ==
    \/ Connect
    \/ \E p \in LogPairs : Track(p[1], p[2])
    \/ TrackerDisconnect
    \/ DisconnectFinish
    \/ StartProcessing
    \/ ProcessEventsEnter
    \/ ProcessEvent
    \/ ProcessingRecover
    \/ ProcessingResume
    \/ HandleReconnectAttempt
    \/ \E n \in 1..MaxConns : IoSend(n)
    \/ \E n \in 1..MaxConns : IoClosed(n)
    \/ \E n \in 1..MaxConns, e \in LoopEvents : IoRecvProgress(n, e)

LogSpecInit == AuthIdle /\ WsInit({WsConfig}) /\ TrackerInit

LogSpec == LogSpecInit /\ [][LogNext]_vars

\* the event path with two entities followed on the same channel type
FramePairs == {<<"Upload", 1>>, <<"Upload", 2>>}

FrameEvents == {UploadEv(1), UploadEv(2), CompleteEv(1), ErrorEv(2)}

FrameNext ==
    \/ Connect
    \/ \E p \in FramePairs : Track(p[1], p[2])
    \/ StartProcessing
    \/ ProcessEventsEnter
    \/ ProcessEvent
    \/ \E n \in 1..MaxConns : IoClosed(n)
    \/ \E n \in 1..MaxConns, e \in FrameEvents : IoRecvProgress(n, e)

FrameSpec == EventSpecInit /\ [][FrameNext]_vars

----
\* analysis.rs:233-285  AnalysisClient::wait_for_completion; times are in
\* seconds

\* analysis.rs:284  sleep(Duration::from_secs(2))
PollSleepSecs == 2

\* what a request or a timer takes beyond its nominal duration
Delays == {0, 1}

\* analysis.rs:22-28 AnalysisStatus, and a get_status that returns Err
StatusReplies ==
    {"pending", "processing", "completed", "failed", "cancelled", "request_error"}

\* the error_message of a failed analysis
ErrorMessages == {"", "timed out"}

\* analysis.rs:251, 263, 267 and the errors of get_status / get_result
TimedOutError(t) == [ok |-> FALSE, message |-> <<"Analysis timed out after", t, "seconds">>]
FailedError(msg) == [ok |-> FALSE, message |-> <<"Analysis failed:", msg>>]
CancelledError == [ok |-> FALSE, message |-> <<"Analysis was cancelled">>]
RequestError(what) == [ok |-> FALSE, message |-> <<what>>]
AnalysisResult == [ok |-> TRUE, message |-> <<"result">>]

\* the call has not returned
StillWaiting == [ok |-> FALSE, message |-> <<"none">>]

\* a deadline that allows one more round
timed_out_late(elapsed, timeout) == elapsed > timeout + PollSleepSecs

\* analysis.rs:249  start_time.elapsed() > timeout
timed_out(elapsed, timeout) == elapsed > timeout

\* a match in which Cancelled only updates the spinner
on_status_cancel_ignored(status, msg, got_result) ==
    CASE status = "completed" ->
            IF got_result THEN AnalysisResult
            ELSE RequestError("Failed to get analysis result")
      [] status = "failed" -> FailedError(msg)
      [] status = "request_error" -> RequestError("Failed to get analysis status")
      [] OTHER -> StillWaiting

\* analysis.rs:254-282: what the call returns after a poll, StillWaiting when it
\* goes on to sleep
on_status(status, msg, got_result) ==
    CASE status = "completed" ->
            IF got_result THEN AnalysisResult
            ELSE RequestError("Failed to get analysis result")
      [] status = "failed" -> FailedError(msg)
      [] status = "cancelled" -> CancelledError
      [] status = "request_error" -> RequestError("Failed to get analysis status")
      [] OTHER -> StillWaiting

\* analysis.rs:245-246
WaitForCompletion(timeout_secs) ==
    /\ call = NoCall
    /\ \E d \in Delays :
         call' = [op |-> "wait_for_completion", pc |-> "check",
                  timeout |-> timeout_secs, elapsed |-> d, polls |-> 0,
                  poll_started |-> 0, poll_ended |-> 0, last |-> "none",
                  result |-> StillWaiting]
    /\ UNCHANGED <<events, active_subscriptions, as_lock, events_lock, pe, received>>
    /\ UNCHANGED <<authVars, wsVars>>

\* analysis.rs:249-254: the deadline check at the top of the loop, then the
\* status request is sent
WaitCheck ==
    /\ call.op = "wait_for_completion"
    /\ call.pc = "check"
    /\ IF timed_out(call.elapsed, call.timeout)
         THEN call' = [call EXCEPT !.pc = "done",
                                   !.result = TimedOutError(call.timeout)]
         ELSE call' = [call EXCEPT !.pc = "polling",
                                   !.polls = @ + 1,
                                   !.poll_started = call.elapsed]
    /\ UNCHANGED <<events, active_subscriptions, as_lock, events_lock, pe, received>>
    /\ UNCHANGED <<authVars, wsVars>>

\* analysis.rs:254-282: the answer of get_status (and of get_result after
\* Completed) arrives
WaitPoll(status, msg, got_result, d) ==
    /\ call.op = "wait_for_completion"
    /\ call.pc = "polling"
    /\ LET r == on_status(status, msg, got_result)
       IN call' = [call EXCEPT !.pc = IF r = StillWaiting THEN "sleeping" ELSE "done",
                               !.elapsed = @ + d,
                               !.poll_ended = call.elapsed + d,
                               !.last = status,
                               !.result = r]
    /\ UNCHANGED <<events, active_subscriptions, as_lock, events_lock, pe, received>>
    /\ UNCHANGED <<authVars, wsVars>>

\* analysis.rs:284  sleep(Duration::from_secs(2)).await
WaitSleep ==
    /\ call.op = "wait_for_completion"
    /\ call.pc = "sleeping"
    /\ \E d \in Delays :
         call' = [call EXCEPT !.pc = "check", !.elapsed = @ + PollSleepSecs + d]
    /\ UNCHANGED <<events, active_subscriptions, as_lock, events_lock, pe, received>>
    /\ UNCHANGED <<authVars, wsVars>>

WaitNext ==
    \/ \E t \in 0..MaxTimeoutSecs : WaitForCompletion(t)
    \/ WaitCheck
    \/ \E st \in StatusReplies, msg \in ErrorMessages, ok \in BOOLEAN, d \in Delays :
          WaitPoll(st, msg, ok, d)
    \/ WaitSleep

\* every request is answered (the client is built with a request timeout,
\* analysis.rs:124) and every timer fires
WaitFairness ==
    /\ WF_vars(WaitCheck)
    /\ WF_vars(\E st \in StatusReplies, msg \in ErrorMessages, ok \in BOOLEAN,
                  d \in Delays : WaitPoll(st, msg, ok, d))
    /\ WF_vars(WaitSleep)

WaitSpec == EventSpecInit /\ [][WaitNext]_vars /\ WaitFairness

\* a connection and the frames its server sends
MsgNext ==
    \/ Connect
    \/ \E n \in 1..MaxConns, m \in Frames : IoRecvMessage(n, m)
    \/ \E n \in 1..MaxConns : IoClosed(n)

MsgSpec == EventSpecInit /\ [][MsgNext]_vars

\* the background loop next to a user task that calls the tracker while the
\* loop runs
LoopNext ==
    \/ Connect
    \/ \E p \in TrackPairs : Track(p[1], p[2])
    \/ StartProcessing
    \/ ProcessEventsEnter
    \/ ProcessEvent
    \/ ProcessingRecover
    \/ ProcessingResume
    \/ HandleReconnectAttempt
    \/ \E n \in 1..MaxConns : IoClosed(n)
    \/ \E n \in 1..MaxConns, e \in LoopEvents : IoRecvProgress(n, e)
    \/ \E p \in TrackPairs : TrackSuspends(p[1], p[2])
    \/ TrackGranted
    \/ DisconnectSuspends
    \/ DisconnectGranted
    \/ DisconnectFinish
    \/ \E id \in LoopIds : GetEvents(id)
    \/ \E id \in LoopIds : GetLatestEvent(id)
    \/ ReaderReturns

LoopSpecInit == AuthIdle /\ WsInit({WsConfig}) /\ TrackerInit

\* the tasks tokio runs are scheduled when they can take a step, and its
\* locks are granted in the order in which they were asked for; what the
\* server and the user do is left to them
LoopFairness ==
    /\ WF_vars(ProcessEventsEnter)
    /\ WF_vars(ProcessEvent)
    /\ WF_vars(ProcessingRecover)
    /\ WF_vars(ProcessingResume)
    /\ WF_vars(HandleReconnectAttempt)
    /\ SF_vars(TrackGranted)
    /\ SF_vars(DisconnectGranted)
    /\ WF_vars(DisconnectFinish)
    /\ \A id \in LoopIds : WF_vars(GetEvents(id))
    /\ \A id \in LoopIds : WF_vars(GetLatestEvent(id))

LoopSpec == LoopSpecInit /\ [][LoopNext]_vars /\ LoopFairness

\* a connection that the user closes: the I/O loop and the ping task are
\* scheduled when they have something to do; the server is free to stay
\* silent
CloseNext ==
    \/ Connect
    \/ \E p \in WsPairs : Subscribe(p[1], p[2])
    \/ \E n \in 1..MaxConns : IoSend(n)
    \/ \E n \in 1..MaxConns : IoClosed(n)
    \/ \E n \in 1..MaxConns : PingTick(n)
    \/ DisconnectStart
    \/ DisconnectFinish

CloseSpecInit == AuthIdle /\ WsInit({WsConfig}) /\ TrackerInit

CloseFairness ==
    /\ \A n \in 1..MaxConns : WF_vars(IoSend(n))
    /\ \A n \in 1..MaxConns : WF_vars(PingTick(n))
    /\ WF_vars(DisconnectFinish)

CloseSpec == CloseSpecInit /\ [][CloseNext]_vars /\ CloseFairness

\* the connection state under every call that changes it
ConnNext ==
    \/ Connect
    \/ \E p \in WsPairs : Subscribe(p[1], p[2])
    \/ \E n \in 1..MaxConns : IoSend(n)
    \/ \E n \in 1..MaxConns : IoClosed(n)
    \/ DisconnectStart
    \/ DisconnectFinish
    \/ HandleReconnectStart
    \/ HandleReconnectAttempt

ConnSpecInit == AuthIdle /\ WsInit({WsConfig}) /\ TrackerInit

ConnSpec == ConnSpecInit /\ [][ConnNext]_vars

\* the two ways to log in: login_device_flow and login_api_key
LoginFlows == {"device", "api_key"}

\* the credential a login puts in the store: the device flow's fresh token
\* pair (device_flow.rs:121) or the validated API key (api_key.rs:203)
login_credential(flow, ein) ==
    IF flow = "device" THEN OAuth(issued + 1, issued + 1, now + ein) ELSE ApiKey(1)

\* token_store.rs:59-60, reached from login_device_flow (mod.rs:44-54) and
\* login_api_key (mod.rs:56-90): save_credentials writes the JSON to auth.json
LoginWrite(flow, ein) ==
    /\ call = NoCall
    /\ issued <= MaxIssued
    /\ disk' = login_credential(flow, ein)
    /\ \E created \in CreatedModes : file_mode' = written_mode(file_mode, created)
    /\ issued' = IF flow = "device" THEN issued + 1 ELSE issued
    /\ logged_out' = FALSE
    /\ call' = [op |-> "login", pc |-> "written"]
    /\ UNCHANGED <<credentials, now, pc, local_rt, response, result, refresh_calls, cred_lock, loaded>>
    /\ UNCHANGED <<events, active_subscriptions, as_lock, events_lock, pe, received>>
    /\ UNCHANGED wsVars

\* token_store.rs:62-69 + mod.rs:51 / mod.rs:87: save_credentials then
\* restricts the file's bits, and the login reads the file back (the
\* right-hand side of its assignment) before it asks for the write lock
LoginChmod ==
    /\ call.op = "login" /\ call.pc = "written"
    /\ file_mode' = set_permissions(file_mode)
    /\ call' = [op |-> "login", pc |-> "saved", value |-> load_credentials(disk)]
    /\ UNCHANGED <<disk, credentials, now, pc, local_rt, response, result, issued, refresh_calls, cred_lock, loaded, logged_out>>
    /\ UNCHANGED <<events, active_subscriptions, as_lock, events_lock, pe, received>>
    /\ UNCHANGED wsVars

\* mod.rs:51 / mod.rs:87: with the write lock granted the value read becomes
\* the cache, and the login returns
LoginAssign ==
    /\ call.op = "login" /\ call.pc = "saved"
    /\ can_write(cred_lock)
    /\ credentials' = call.value
    /\ call' = [op |-> "login", pc |-> "done"]
    /\ UNCHANGED <<disk, now, pc, local_rt, response, result, issued, refresh_calls, cred_lock, loaded, logged_out, file_mode>>
    /\ UNCHANGED <<events, active_subscriptions, as_lock, events_lock, pe, received>>
    /\ UNCHANGED wsVars

\* mod.rs:116 + token_store.rs:89-97: logout removes auth.json
LogoutClear ==
    /\ call = NoCall
    /\ disk' = NoCred
    /\ file_mode' = FileAbsent
    /\ call' = [op |-> "logout", pc |-> "cleared"]
    /\ UNCHANGED <<credentials, now, pc, local_rt, response, result, issued, refresh_calls, cred_lock, loaded, logged_out>>
    /\ UNCHANGED <<events, active_subscriptions, as_lock, events_lock, pe, received>>
    /\ UNCHANGED wsVars

\* mod.rs:117-123: with the write lock granted logout empties the cache; what
\* follows rewrites the configuration file only, and logout returns
LogoutReset ==
    /\ call.op = "logout" /\ call.pc = "cleared"
    /\ can_write(cred_lock)
    /\ credentials' = NoCred
    /\ logged_out' = TRUE
    /\ call' = [op |-> "logout", pc |-> "done"]
    /\ UNCHANGED <<disk, now, pc, local_rt, response, result, issued, refresh_calls, cred_lock, loaded, file_mode>>
    /\ UNCHANGED <<events, active_subscriptions, as_lock, events_lock, pe, received>>
    /\ UNCHANGED wsVars

\* the task whose get_access_token calls run next to the logins and logouts
TokenCaller == {c \in Callers : c = 1}

\* the credential manager with logins and logouts next to one task's token
\* calls, at one instant of the clock
LoginNext ==
    \/ \E c \in TokenCaller : GetAccessTokenStart(c)
    \/ \E c \in TokenCaller : RefreshRejected(c)
    \/ \E c \in TokenCaller : RefreshAccepted(c)
    \/ \E c \in TokenCaller : ReloadAndReturn(c)
    \/ \E c \in TokenCaller : CallReturns(c)
    \/ \E flow \in LoginFlows, ein \in ExpiresInChoices : LoginWrite(flow, ein)
    \/ LoginChmod
    \/ LoginAssign
    \/ LogoutClear
    \/ LogoutReset
    \/ ReaderReturns

LoginSpecInit == AuthInit /\ WsInit({DefaultConfig}) /\ TrackerInit

LoginSpec == LoginSpecInit /\ [][LoginNext]_vars

\* the credential manager with readers of the cache next to the refreshes
LockNext ==
    \/ \E c \in Callers : GetAccessTokenStart(c)
    \/ \E c \in Callers : RefreshRejected(c)
    \/ \E c \in Callers : RefreshAccepted(c)
    \/ \E c \in Callers : ReloadAndReturn(c)
    \/ \E c \in Callers : CallReturns(c)
    \/ \E op \in CredentialReaders : ReadCredential(op)
    \/ ReaderReturns

LockSpecInit == AuthInit /\ WsInit({DefaultConfig}) /\ TrackerInit

LockSpec == LockSpecInit /\ [][LockNext]_vars

TrackerSpecInit == AuthIdle /\ WsInit({WsConfig}) /\ TrackerInit

TrackerSpec == TrackerSpecInit /\ [][TrackerNext]_vars

AuthSpecInit == AuthInit /\ WsInit({DefaultConfig}) /\ TrackerInit

AuthSpec == AuthSpecInit /\ [][AuthNext]_vars

(***************************************************************************)
(* The claims                                                              *)
(***************************************************************************)

\* C1: concurrent get_access_token calls on a token inside the refresh margin
\* send exactly one refresh: no two calls are ever in flight at the auth
\* endpoint with the same refresh token, and two calls that both come back
\* from a refresh hold the same access token.
C1_SingleRefresh ==
    \A c1 \in Callers, c2 \in Callers :
        /\ (pc[c1] = "refreshing" /\ pc[c2] = "refreshing"
              /\ local_rt[c1] = local_rt[c2]) => c1 = c2
        /\ (response[c1].status = "OK" /\ response[c2].status = "OK"
              /\ local_rt[c1] = local_rt[c2])
             => response[c1].access_token = response[c2].access_token

\* C2: a successful handle_reconnect puts on the new connection's command
\* channel one subscribe command for every pair of the registry, exactly once
\* each, in the order in which the pairs were first subscribed.
RECURSIVE FirstOccurrences(_, _)
FirstOccurrences(seq, seen) ==
    IF seq = <<>> THEN <<>>
    ELSE IF Head(seq) \in seen THEN FirstOccurrences(Tail(seq), seen)
    ELSE <<Head(seq)>> \o FirstOccurrences(Tail(seq), seen \cup {Head(seq)})

C2_ReplayOnce ==
    [][(~ws.is_connected /\ rc.pc = "loop" /\ rc'.pc = "idle" /\ rc'.result = "Ok")
         => LET pairs == FirstOccurrences(ws.subscriptions, {})
            IN ws'.conns[ws'.command_sender].queue =
                  [i \in 1..Len(pairs) |-> SubscribeMsg(pairs[i][1], pairs[i][2])]]_vars

\* C3: once the processing loop has stored a Complete or Error event for a
\* tracked id and issued the unsubscribe, the cleanup runs to completion: the
\* task is never left suspended inside the cleanup with the id still in the
\* active subscription set.
C3_CleanupCompletes ==
    \A x \in Ids :
        ~(pe.pc = "blocked" /\ pe.id = x /\ active_subscriptions[x] # "none")

\* C4: for every entity id, get_events returns the progress events received
\* for that id, in their order of arrival (the events still waiting in the
\* channel are the ones not yet returned), and get_latest_event returns the
\* last of them, or nothing when none is stored.
Entity(e) ==
    IF e.type = "upload" THEN e.document_id
    ELSE IF e.type = "analysis" THEN e.analysis_id
    ELSE IF e.type = "batch" THEN e.batch_id
    ELSE e.id

ForEntity(seq, id) == SelectSeq(seq, LAMBDA e : Entity(e) = id)

C4_EventLogOrder ==
    \A id \in Ids :
        LET log == get_events(events, id) IN
        /\ log \o ForEntity(event_queue, id) = ForEntity(received, id)
        /\ get_latest_event(events, id) =
              IF log = <<>> THEN None ELSE Some(log[Len(log)])

\* C4 witness: two events of one entity are stored, the terminal one last,
\* with an event of another entity stored as well
C4_Witness ==
    /\ Len(get_events(events, 1)) >= 2
    /\ get_latest_event(events, 1) = Some(CompleteEv(1))
    /\ get_events(events, 2) # <<>>

\* C5: no (channel_type, id) pair occurs more than once in the subscription
\* registry.
C5_NoDuplicates ==
    \A i \in 1..Len(ws.subscriptions), j \in 1..Len(ws.subscriptions) :
        ws.subscriptions[i] = ws.subscriptions[j] => i = j

\* C6: in every connection state the pairs of the registry are exactly the
\* pairs whose most recent successful call was subscribe.
C6_RegistryMatchesCalls ==
    {ws.subscriptions[i] : i \in 1..Len(ws.subscriptions)} = hist.expected

\* C7: a rejected refresh makes get_access_token return an authentication
\* error and changes neither the credential file nor the cached credential.
C7_RejectedRefreshLeavesState ==
    [][\A c \in Callers :
          /\ (pc[c] = "idle" /\ pc'[c] = "refreshing")
               => (disk' = disk /\ credentials' = credentials)
          /\ (pc[c] = "refreshing" /\ pc'[c] = "done" /\ response'[c].status # "OK")
               => /\ result'[c] = Err("AuthenticationError")
                  /\ disk' = disk
                  /\ credentials' = credentials]_vars

\* C7 witness: a call on an expired OAuth credential came back rejected
C7_Witness ==
    \E c \in Callers :
        /\ result[c] = Err("AuthenticationError")
        /\ credentials.kind = "OAuth"
        /\ credentials.expires_at <= now
        /\ disk = credentials

\* C8: handle_reconnect makes at most reconnect_max_attempts connect
\* attempts; it returns an error exactly when all of them have failed, and it
\* returns success right after the first attempt that succeeds.
C8_BoundedAttempts ==
    /\ rc.connects <= ws.config.reconnect_max_attempts
    /\ rc.oks <= 1
    /\ rc.pc = "loop" => (rc.oks = 0 /\ rc.result = "none")
    /\ rc.result = "Err"
         => (rc.pc = "idle" /\ rc.oks = 0
               /\ rc.connects = ws.config.reconnect_max_attempts)
    /\ rc.oks = 1 => (rc.pc = "idle" /\ rc.result = "Ok")
    /\ rc.result = "Ok" => rc.oks = 1

\* C8 witness: a reconnection of at least two attempts gave up
C8_Witness ==
    /\ rc.pc = "idle"
    /\ rc.result = "Err"
    /\ rc.connects >= 2

\* C9: the time handle_reconnect has spent never exceeds the 60 s ceiling by
\* more than the last delay, and no connect attempt is made once the ceiling
\* has been passed.
C9_ElapsedCeiling ==
    /\ rc.late = 0
    /\ rc.elapsed <= MaxElapsedMs + sleep_ms(ws, rc.attempts)

\* C10: a connect attempt made by handle_reconnect puts the credential
\* manager's current access token in its handshake.
C10_FreshToken ==
    [][(rc.pc = "loop" /\ rc'.connects = rc.connects + 1 /\ credentials.kind = "OAuth")
         => hist'.handshake = credentials.access_token]_vars

\* C11: whenever the connection has dropped (its I/O loop has ended and the
\* connected flag is cleared) while the background loop is running, the loop
\* eventually invokes handle_reconnect, unless a call of the user has
\* brought the connection back first.
Dropped ==
    /\ ws.command_sender # 0
    /\ ~ws.conns[ws.command_sender].io_alive
    /\ ~ws.is_connected

C11_DropLeadsToReconnect ==
    (Dropped /\ pe.pc \in {"idle", "recv"}) ~> (pe.pc = "reconnecting" \/ ~Dropped)

\* C12: a track_* or disconnect call of the tracker made while the
\* background loop is running, and suspended on the websocket, eventually
\* returns.
C12_TrackerCallReturns ==
    (call.op \in {"track", "tracker_disconnect"} /\ call.pc = "waiting"
        /\ pe.pc # "off")
      ~> (call = NoCall)

\* C13: a get_events or get_latest_event call suspended on the event log
\* eventually has its answer, and the background loop, once suspended on one
\* of its own locks, eventually goes on.
C13_ReadersReturn ==
    /\ (call.op \in {"get_events", "get_latest_event"} /\ call.pc = "waiting")
          ~> (call.pc = "done")
    /\ (pe.pc = "blocked") ~> (pe.pc = "recv")

\* C14: a disconnect() that has been called eventually returns, and when it
\* returns the connected flag is cleared and the command sender is dropped.
C14_DisconnectReturns ==
    (call.op = "disconnect")
      ~> (call = NoCall /\ ~ws.is_connected /\ ws.command_sender = 0)

\* C15: the connected flag rises only in a step in which a handshake has
\* succeeded and a running connection has become the current one; it falls
\* only on a failed write, on a close / read error / end of stream, or in
\* disconnect; and a connect attempt that starts in the disconnected state
\* and fails leaves the flag cleared.
NewConnection == Len(ws'.conns) = Len(ws.conns) + 1

HandshakeSucceeded ==
    /\ NewConnection
    /\ ws'.ws_stream = Len(ws'.conns)
    /\ ws'.conns[Len(ws'.conns)].io_alive

WriteFailed ==
    \E n \in 1..Len(ws.conns) :
        /\ ws'.conns[n].io_alive
        /\ Len(ws'.conns[n].queue) < Len(ws.conns[n].queue)

StreamEnded ==
    \/ \E n \in 1..Len(ws.conns) : ws.conns[n].io_alive /\ ~ws'.conns[n].io_alive
    \/ NewConnection /\ ~ws'.conns[Len(ws'.conns)].io_alive

DisconnectCalled == call.op = "none" /\ call'.op = "disconnect"

FailedAttempt ==
    \/ rc.pc = "loop" /\ rc'.connects = rc.connects + 1 /\ rc'.oks = rc.oks
    \/ NewConnection /\ ~ws'.conns[Len(ws'.conns)].io_alive

LiveLoops == {n \in 1..Len(ws.conns) : ws.conns[n].io_alive}

LiveHeartbeats == {n \in LiveLoops : ws.conns[n].ping_alive}

C16_SingleConnection ==
    /\ Cardinality(LiveLoops) <= 1
    /\ Cardinality(LiveHeartbeats) <= 1

\* C17: subscribe and unsubscribe report success only when their command has
\* been put on the command queue of the current connection: a pair becomes
\* one whose last successful call was subscribe (or stops being one) only in
\* a step that enqueues the matching command.
Enqueued(msg) ==
    /\ ws'.command_sender # 0
    /\ LET q == ws'.conns[ws'.command_sender].queue
       IN q # <<>> /\ q[Len(q)] = msg

C17_SuccessMeansEnqueued ==
    [][\A p \in Pairs :
          /\ (p \notin hist.expected /\ p \in hist'.expected)
               => Enqueued(SubscribeMsg(p[1], p[2]))
          /\ (p \in hist.expected /\ p \notin hist'.expected)
               => Enqueued(UnsubscribeMsg(p[1], p[2]))]_vars

\* C18: for a cached OAuth credential get_access_token returns the cached
\* access token, with no refresh request, exactly when expires_at is later
\* than now plus the 5-minute margin; otherwise it sends a refresh request,
\* and when the refresh has gone through it returns the access token of the
\* refresh response.
C18_RefreshDecision ==
    [][\A c \in Callers :
          /\ (pc[c] = "idle" /\ pc'[c] # "idle" /\ credentials.kind = "OAuth")
               => IF credentials.expires_at > now + RefreshMarginMin
                    THEN /\ pc'[c] = "done"
                         /\ result'[c] = Ok(credentials.access_token)
                         /\ refresh_calls' = refresh_calls
                    ELSE /\ pc'[c] = "refreshing"
                         /\ refresh_calls' = refresh_calls + 1
          /\ (pc[c] = "stored" /\ pc'[c] = "done")
               => result'[c] = Ok(response[c].access_token)]_vars

\* C18 witness: one call has returned the token of its refresh response and
\* another has then been served that token from the cache
C18_Witness ==
    \E c1 \in Callers, c2 \in Callers :
        /\ pc[c1] = "done" /\ response[c1].status = "OK"
        /\ result[c1] = Ok(response[c1].access_token)
        /\ pc[c2] = "done" /\ response[c2].status = "none"
        /\ result[c2] = Ok(response[c1].access_token)
        /\ credentials.kind = "OAuth"

\* C19: when a successful refresh completes, the cached credential and the
\* stored credential are both OAuth, carry the access token of the refresh
\* response, and carry the refresh token the response supplied, or the prior
\* one when it supplied none.
RefreshedToken(c) ==
    IF response[c].body_refresh_token # 0
      THEN response[c].body_refresh_token
      ELSE local_rt[c]

C19_RefreshWriteBack ==
    [][\A c \in Callers :
          (pc[c] = "stored" /\ pc'[c] = "done")
            => /\ credentials'.kind = "OAuth"
               /\ disk'.kind = "OAuth"
               /\ credentials'.access_token = response[c].access_token
               /\ disk'.access_token = response[c].access_token
               /\ credentials'.refresh_token = RefreshedToken(c)
               /\ disk'.refresh_token = RefreshedToken(c)
               /\ credentials'.expires_at = disk'.expires_at]_vars

\* C20: with no credential cached, get_access_token fails with the
\* not-authenticated error, and sends no refresh, only when the store holds
\* no credential either; when the store holds one the call does not fail
\* that way.
C20_LoadsWhenNotCached ==
    [][\A c \in Callers :
          (pc[c] = "idle" /\ pc'[c] # "idle" /\ credentials.kind = "None")
            => IF load_credentials(disk).kind = "None"
                 THEN /\ result'[c] = Err("NotAuthenticated")
                      /\ refresh_calls' = refresh_calls
                 ELSE result'[c] # Err("NotAuthenticated")]_vars

\* C21: while a refresh request is in flight no guard of the lock around
\* the cached credential is alive, and a reader of the cache
\* (is_authenticated, status) is never left waiting for that lock.
RefreshInFlight == \E c \in Callers : pc[c] = "refreshing"

C21_NoLockDuringRefresh ==
    /\ RefreshInFlight => cred_lock = NoLock
    /\ call.op \in CredentialReaders => call.pc = "done"

\* C21 witness: a reader has its answer while a refresh is in flight
C21_Witness ==
    /\ RefreshInFlight
    /\ call.op = "status"
    /\ call.pc = "done"
    /\ call.value = "OAuth"

\* C22: processing an event for entity Y leaves, for every other id X, the
\* membership of X in the active subscriptions and the registry entries of
\* X as they were; an X that is not in the active set stays out of it.
RegistryOf(w, x) == SelectSeq(w.subscriptions, LAMBDA p : p[2] = x)

EventProcessed == events' # events

C22_OtherIdsUntouched ==
    [][EventProcessed =>
         \A x \in Ids :
            events'[x] = events[x] =>
               /\ active_subscriptions'[x] = active_subscriptions[x]
               /\ RegistryOf(ws', x) = RegistryOf(ws, x)]_vars

\* C22 witness: the terminal event of entity 1 was processed and cleaned up
\* in the registry while entity 2, followed on the same channel type, is
\* still subscribed and registered
C22_Witness ==
    /\ events[1] # <<>>
    /\ events[1][Len(events[1])] = CompleteEv(1)
    /\ RegistryOf(ws, 1) = <<>>
    /\ active_subscriptions[2] = "Upload"
    /\ RegistryOf(ws, 2) = << <<"Upload", 2>> >>

\* C23: the events put on the event stream are exactly the events of the
\* inbound frames whose discriminator is progress and whose payload decodes,
\* in order and once each; a frame with the discriminator connected,
\* subscribed, unsubscribed, pong or error never produces an event.
IsProgressFrame(m) ==
    /\ m.frame = "text"
    /\ m.envelope
    /\ m.message_type = "progress"
    /\ m.data.id
    /\ m.data.event.type \in {"upload", "analysis", "batch", "error", "complete"}

RECURSIVE EventsOf(_)
EventsOf(ms) ==
    IF ms = <<>> THEN <<>>
    ELSE (IF IsProgressFrame(Head(ms)) THEN <<Head(ms).data.event>> ELSE <<>>)
           \o EventsOf(Tail(ms))

C23_OnlyProgressForwarded == received = EventsOf(hist.inbound)

\* C23 witness: an error frame carrying a well-formed event payload, then
\* a progress frame; only the second was forwarded
C23_Witness ==
    /\ hist.inbound = <<TextFrame("error", Wrapped(UploadEv(1))),
                        TextFrame("progress", Wrapped(UploadEv(1)))>>
    /\ received = <<UploadEv(1)>>

\* C24: a frame with an undecodable envelope, an unknown discriminator or
\* a bad progress payload changes nothing but the frame being consumed: the
\* connected flag and the I/O loops stay as they are and nothing is put on
\* the event stream; a valid progress frame is forwarded whatever came
\* before it.
Malformed(m) ==
    /\ m.frame = "text"
    /\ \/ ~m.envelope
       \/ m.message_type \notin ServerMessageType
       \/ m.message_type = "progress" /\ ~IsProgressFrame(m)

FrameArrived == hist.inbound' # hist.inbound

ArrivedFrame == hist.inbound'[Len(hist.inbound')]

C24_MalformedIsSkipped ==
    [][FrameArrived =>
         /\ Malformed(ArrivedFrame) =>
               ws' = ws /\ event_queue' = event_queue
         /\ IsProgressFrame(ArrivedFrame) =>
               ws' = ws /\ event_queue' = Append(event_queue, ArrivedFrame.data.event)]_vars

\* C24 witness: an undecodable or unknown frame and a progress frame with a
\* bad payload, then a valid event delivered on the same live connection
C24_Witness ==
    /\ Len(hist.inbound) = 3
    /\ hist.inbound[1] \in {Undecodable, TextFrame("Progress", Wrapped(UploadEv(1)))}
    /\ hist.inbound[2] = TextFrame("progress", Junk)
    /\ hist.inbound[3] = TextFrame("progress", Wrapped(CompleteEv(1)))
    /\ event_queue = <<CompleteEv(1)>>
    /\ ws.is_connected
    /\ Running(1)

\* C25: once every I/O loop has ended, the connected flag is cleared and
\* the buffered events are consumed, a caller suspended in next_event()
\* (the background loop at its receive) gets an answer, unless the
\* connection is brought back first.
TornDown ==
    /\ ws.conns # <<>>
    /\ \A n \in 1..Len(ws.conns) : ~ws.conns[n].io_alive
    /\ ~ws.is_connected

C25_NextEventCloses ==
    (TornDown /\ pe.pc = "recv" /\ event_queue = <<>>)
        ~> (pe.pc # "recv" \/ ~TornDown)

\* C26: once the connected flag is cleared, the ping task of every
\* connection made so far terminates; none of them goes on pinging after a
\* later reconnect.
PingAlive(n) == n <= Len(ws.conns) /\ ws.conns[n].ping_alive

C26_HeartbeatStops ==
    \A n \in 1..MaxConns : (PingAlive(n) /\ ~ws.is_connected) ~> ~PingAlive(n)

\* C27: wait_for_completion ends whatever the status replies are; a status
\* poll starts only while the elapsed time does not exceed the timeout,
\* every poll after the first starts at least 2 seconds after the previous
\* one ended, and a call that ends while the analysis was last seen pending
\* or processing (or never seen) ends past the deadline with the timeout
\* error.
Waiting == call.op = "wait_for_completion"

C27_WaitTerminates ==
    /\ [](Waiting =>
            /\ call.polls > 0 => call.poll_started <= call.timeout
            /\ call.polls > 1 /\ call.pc = "polling" =>
                  call.poll_started >= call.poll_ended + 2
            /\ call.pc = "done" /\ call.last \in {"none", "pending", "processing"} =>
                  /\ call.elapsed > call.timeout
                  /\ call.result = TimedOutError(call.timeout))
    /\ (Waiting ~> (Waiting /\ call.pc = "done"))

\* C27 witness: two polls answered processing, then the deadline check
\* ends the call with the timeout error
C27_Witness ==
    /\ Waiting
    /\ call.pc = "done"
    /\ call.polls = 2
    /\ call.last = "processing"
    /\ call.result = TimedOutError(call.timeout)

\* C28: a result is returned only after a poll answered completed; a poll
\* answering failed or cancelled ends the call at that poll with its own
\* error, and the text of that error differs from the text of the timeout
\* error, which is the one returned when the deadline passes with the
\* analysis last seen pending or processing.
IsTimeoutText(r) == r.message[1] = "Analysis timed out after"

C28_OutcomeByStatus ==
    Waiting =>
      /\ call.result.ok => call.pc = "done" /\ call.last = "completed"
      /\ call.last = "failed" =>
            /\ call.pc = "done" /\ call.elapsed = call.poll_ended
            /\ ~call.result.ok
            /\ call.result.message[1] = "Analysis failed:"
            /\ ~IsTimeoutText(call.result)
      /\ call.last = "cancelled" =>
            /\ call.pc = "done" /\ call.elapsed = call.poll_ended
            /\ call.result = CancelledError
            /\ ~IsTimeoutText(call.result)
      /\ call.pc = "done" /\ call.last \in {"pending", "processing"} =>
            ~call.result.ok /\ IsTimeoutText(call.result)

\* C28 witness: the analysis is reported failed with the message "timed
\* out" on the second poll
C28_Witness ==
    /\ Waiting
    /\ call.pc = "done"
    /\ call.polls = 2
    /\ call.result = FailedError("timed out")

\* C29: with an API key as the cached credential, get_access_token returns
\* the key as it is, at whatever time it is called, sends no refresh request
\* and leaves the cached and the stored credential as they were.
C29_ApiKeyAsIs ==
    [][\A c \in Callers :
          (pc[c] = "idle" /\ pc'[c] # "idle" /\ credentials.kind = "ApiKey")
             => /\ pc'[c] = "done"
                /\ result'[c] = Ok(credentials.key)
                /\ refresh_calls' = refresh_calls
                /\ credentials' = credentials
                /\ disk' = disk]_vars

\* C29 witness: the key has been returned to both callers, late in time
C29_Witness ==
    /\ credentials.kind = "ApiKey"
    /\ now >= MaxTime - 1
    /\ \A c \in Callers : pc[c] = "done" /\ result[c] = Ok(credentials.key)
    /\ refresh_calls = 0

\* C30: while the current connection is live, the connected flag is never
\* cleared by a step of the I/O loop of an earlier connection (its socket
\* ending or one of its writes failing).
CurrentLive(w) ==
    /\ w.command_sender # 0
    /\ w.ws_stream = w.command_sender
    /\ w.conns[w.command_sender].io_alive

EarlierLoopStepped ==
    \E n \in 1..Len(ws.conns) :
        /\ n # ws.command_sender
        /\ ws'.conns[n] # ws.conns[n]

C30_FlagOfCurrentConnection ==
    [][(ws.is_connected /\ ~ws'.is_connected /\ CurrentLive(ws) /\ CurrentLive(ws')
          /\ ws'.command_sender = ws.command_sender)
         => ~EarlierLoopStepped]_vars

\* C31: the delays handle_reconnect sleeps between attempts start at
\* reconnect_delay_ms and grow geometrically: each is longer than the one
\* before it, and the ratio of consecutive delays is the same throughout.
C31_GeometricDelays ==
    LET d == rc.delays IN
    /\ d # <<>> => d[1] = ws.config.reconnect_delay_ms
    /\ \A i \in 2..Len(d) : d[i] > d[i - 1]
    /\ \A i \in 3..Len(d) : d[i] * d[i - 2] = d[i - 1] * d[i - 1]

\* C32: once the terminal event of a tracked entity has been processed,
\* no connect attempt of handle_reconnect sends a subscribe command for
\* that entity (unless the entity has been tracked anew since).
ReconnectAttempted == rc.pc = "loop" /\ rc'.connects = rc.connects + 1

SubscribesSent(w, x) ==
    IF w.conns = <<>> THEN <<>>
    ELSE SelectSeq(w.conns[Len(w.conns)].queue,
                   LAMBDA m : m.action = "subscribe" /\ m.id = x)

C32_NoResubscribeAfterTerminal ==
    [][(ReconnectAttempted /\ NewConnection)
         => \A x \in hist.finished : SubscribesSent(ws', x) = <<>>]_vars

\* C33: the subscription registry or the tracker's active subscription set
\* gains a pair only in a step in which the subscribe went through: when it
\* started disconnected a handshake succeeded, and the subscribe command of
\* the pair is the last one enqueued on the current, running connection.  A
\* subscribe whose connect or enqueue failed adds the pair to neither.
Count(subs, p) == Len(SelectSeq(subs, LAMBDA q : q = p))

RegistryGains(p) == Count(ws'.subscriptions, p) > Count(ws.subscriptions, p)

ActiveGains(p) ==
    active_subscriptions'[p[2]] = p[1] /\ active_subscriptions[p[2]] # p[1]

SubscribeWentThrough(p) ==
    /\ ~ws.is_connected => HandshakeSucceeded
    /\ CurrentLive(ws')
    /\ LET q == ws'.conns[ws'.command_sender].queue
       IN q # <<>> /\ q[Len(q)] = SubscribeMsg(p[1], p[2])

C33_FailedSubscribeAddsNothing ==
    [][\A p \in Pairs :
          (RegistryGains(p) \/ ActiveGains(p)) => SubscribeWentThrough(p)]_vars

\* C33 witness: a subscribe that started disconnected made a connection
\* whose stream ended before the command could be enqueued; nothing was
\* registered
C33_Witness ==
    /\ Len(ws.conns) = 1
    /\ ~ws.conns[1].io_alive
    /\ hist.handshake # 0
    /\ ws.subscriptions = <<>>
    /\ \A i \in Ids : active_subscriptions[i] = "none"
    /\ hist.expected = {}

\* C34: a refresh that was started from one OAuth credential and whose
\* response is handled when the store holds a different OAuth credential (the
\* user has logged in again in between) leaves the stored credential as the
\* login wrote it: access token, refresh token and expiry.
RefreshHandled(c) == pc[c] = "refreshing" /\ response'[c].status = "OK"

C34_RefreshKeepsNewLogin ==
    [][\A c \in Callers :
          (RefreshHandled(c) /\ disk.kind = "OAuth"
             /\ disk.refresh_token # local_rt[c])
            => disk' = disk]_vars

\* C35: a refresh whose response is handled when the store is empty (after a
\* logout) or holds an API key (after a login with one) writes nothing: the
\* store, the file's mode and the cache stay as they are, and the
\* get_access_token call that started the refresh returns an error.
C35_LateRefreshWritesNothing ==
    [][\A c \in Callers :
          (RefreshHandled(c) /\ disk.kind # "OAuth")
            => /\ disk' = disk
               /\ file_mode' = file_mode
               /\ credentials' = credentials
               /\ pc'[c] = "done"
               /\ result'[c].tag = "Err"]_vars

\* C35 witness: a call that went to refresh has come back with an error
\* while its response was accepted, with nothing in the store and in the
\* cache after a logout
C35_Witness ==
    \E c \in Callers :
        /\ pc[c] = "done"
        /\ response[c].status = "OK"
        /\ result[c].tag = "Err"
        /\ logged_out
        /\ disk = NoCred
        /\ credentials = NoCred

\* C36: the event log only grows at its end: in every step, for every id,
\* the events stored before the step are a prefix of the events stored after
\* it, whatever the step is (storing an event, the cleanup after a terminal
\* event, disconnect, reconnect).
IsPrefix(s, t) == Len(s) <= Len(t) /\ SubSeq(t, 1, Len(s)) = s

C36_LogAppendOnly ==
    [][\A id \in Ids : IsPrefix(events[id], events'[id])]_vars

\* C36 witness: two events are stored for an upload whose terminal event has
\* been through the cleanup, a second connection has been opened since the
\* first, and disconnect has run on it
C36_Witness ==
    /\ Len(events[1]) >= 2
    /\ 1 \in hist.finished
    /\ Len(ws.conns) >= 2
    /\ ws.command_sender = 0

\* C37: once a logout has returned, and until a login starts, the store and
\* the cache hold no credential, and a get_access_token call that starts
\* fails with the not-authenticated error and sends no refresh request.
C37_LoggedOutStaysOut ==
    [][/\ logged_out' => (disk' = NoCred /\ credentials' = NoCred)
       /\ \A c \in Callers :
             (logged_out /\ pc[c] = "idle" /\ pc'[c] # "idle")
               => /\ result'[c] = Err("NotAuthenticated")
                  /\ refresh_calls' = refresh_calls]_vars

\* C38: whenever auth.json holds a credential its mode is owner-only read and
\* write, the time between the write and the chmod of a first save included.
C38_FileIsOwnerOnly ==
    disk.kind # "None" => file_mode = OwnerOnly

====
